---- MODULE Spec2Model ----
(***************************************************************************)
(* Model of the command-line driver of the linguistic style transfer       *)
(* model (linguistic_style_transfer_model/main.py) and of the t-SNE        *)
(* coordinate helper (utils/tsne_interface.py).                            *)
(*                                                                         *)
(*   Spec      : one run of main(argv), step by step                       *)
(*   SpecTrunc : the two truncated ranges (sampling range, averaging range)*)
(*   SpecAvg   : get_average_label_embeddings on arbitrary inputs          *)
(*   SpecPost  : execute_post_inference_operations on arbitrary inputs     *)
(*   SpecTsne  : generate_plot_coordinates on arbitrary inputs             *)
(***************************************************************************)
EXTENDS Integers, Sequences, FiniteSets, TLC

\* ------------------------------------------------------------- bounds
MaxDataSize == 3
MaxBatchSize == 3
MaxLabels == 2
MaxEmbedding == 1
MaxTruncData == 12
MaxTruncBatch == 5
MaxRows == 1
MaxGenLen == 2
MaxSeqLen == 2
VocabSize == 2
MaxPlotLabels == 2
MaxPerLabel == 2

VARIABLES
    pc,                     \* position of the running function
    train_model,            \* --train-model
    infer_sequences,        \* --infer-sequences
    generate_novel_text,    \* --generate-novel-text
    data_size,              \* padded_sequences.shape[0]
    batch_size,             \* model_config.batch_size
    num_labels,             \* number of labels returned by get_labels
    label_sequences,        \* label_sequences[i] = <<label>>
    all_style_embeddings,   \* content of global_config.all_style_embeddings_path
    data_read,              \* get_data has run
    builds,                 \* number of calls of network.build_model()
    open_sessions,          \* sessions opened and not closed
    opened_sessions,        \* sessions ever opened, in order
    samples_size,           \* main's samples_size (-1: not computed)
    avg_range_size,         \* size of the range iterated by the averaging loop (-1: not computed)
    ground_truth_writes,    \* number of calls of flush_ground_truth_sentences
    outputs,                \* modes whose generated_<mode> file was written
    nothing_to_do_logged,   \* "Nothing to do. Exiting ..." was logged
    train_done,             \* network.train returned
    infer_done,             \* inference and its post-operations returned
    random_style_choice,    \* randint(1, num_labels) (0: not drawn)
    average_label_embeddings, \* label -> mean, as <<sum, count>>
    n_generated,            \* number of sequences returned by the network (-1: none yet)
    error,                  \* "none", or the exception that ended the run
    exit_code,              \* exit status of the process (-1: still running)
    generated_sequences,    \* execute_post_inference_operations: token id lists
    final_sequence_lengths, \* execute_post_inference_operations: reported lengths
    max_sequence_length,    \* execute_post_inference_operations: maxlen
    eos_index,              \* word_index[global_config.eos_token]
    padded_sequences,       \* the trimmed and re-padded generated sequences
    label_mapped_embeddings, \* generate_plot_coordinates: <<label, embeddings>> in dict order
    markers,                \* generate_plot_coordinates: markers
    embeddings,             \* generate_plot_coordinates: flattened embeddings
    coordinates_dumped      \* generate_plot_coordinates: the pickle was written

mainVars == <<pc, train_model, infer_sequences, generate_novel_text, data_size,
              batch_size, num_labels, label_sequences, all_style_embeddings,
              data_read, builds, open_sessions, opened_sessions, samples_size,
              avg_range_size, ground_truth_writes, outputs, nothing_to_do_logged,
              train_done, infer_done, random_style_choice,
              average_label_embeddings, n_generated, error, exit_code>>

postVars == <<generated_sequences, final_sequence_lengths, max_sequence_length,
              eos_index, padded_sequences>>

tsneVars == <<label_mapped_embeddings, markers, embeddings, coordinates_dumped>>

auxVars == <<postVars, tsneVars>>

vars == <<mainVars, postVars, tsneVars>>

\* ------------------------------------------------------------- helpers
EmptyMap == [x \in {} |-> 0]

RECURSIVE SumSeq(_)
SumSeq(s) == IF s = <<>> THEN 0 ELSE Head(s) + SumSeq(Tail(s))

\* np.mean(list, axis=0) of scalar embeddings, kept exact as <<sum, count>>
Mean(list) == <<SumSeq(list), Len(list)>>

\* data_size - (data_size % batch_size), main.py line 179
SamplesSize(ds, bs) == ds - (ds % bs)

\* faulty variant: the averaging loop runs over the whole dataset
AverageRangeSizeWhole(ds, bs) == ds

\* the bound of range(...) in get_average_label_embeddings, main.py line 42
AverageRangeSize(ds, bs) == ds - (ds % bs)

\* faulty variant: the list of a label is replaced instead of appended to
RECURSIVE LabelEmbeddingLoopOverwrite(_, _, _, _, _)
LabelEmbeddingLoopOverwrite(i, n, labels, embs, m) ==
    IF i >= n THEN m
    ELSE LET label == labels[i + 1][1]
             m1 == IF label \notin DOMAIN m THEN m @@ (label :> <<>>) ELSE m
         IN LabelEmbeddingLoopOverwrite(i + 1, n, labels, embs,
                               [m1 EXCEPT ![label] = <<embs[i + 1]>>])

\* the loop of get_average_label_embeddings, lines 41-46, from index i
RECURSIVE LabelEmbeddingLoop(_, _, _, _, _)
LabelEmbeddingLoop(i, n, labels, embs, m) ==
    IF i >= n THEN m
    ELSE LET label == labels[i + 1][1]
             m1 == IF label \notin DOMAIN m THEN m @@ (label :> <<>>) ELSE m
         IN LabelEmbeddingLoop(i + 1, n, labels, embs,
                               [m1 EXCEPT ![label] = Append(@, embs[i + 1])])

label_embedding_map(ds, bs, labels, embs) ==
    LabelEmbeddingLoop(0, AverageRangeSize(ds, bs), labels, embs, EmptyMap)

\* get_average_label_embeddings, lines 35-56
get_average_label_embeddings(ds, bs, labels, embs) ==
    LET m == label_embedding_map(ds, bs, labels, embs)
    IN [label \in DOMAIN m |-> Mean(m[label])]

\* faulty variant: the generate flag is left out of the check
NothingToDoIgnoringGenerate == ~(train_model \/ infer_sequences)

\* the check of lines 146-147
NothingToDo == ~(train_model \/ infer_sequences \/ generate_novel_text)

\* network.infer / network.generate_novel_sentences return one generated
\* sequence and one final length per sample of the range they are given
network_result_size(n) == n

\* min(final_sequence_lengths), line 84, raises ValueError on an empty list
MinRaises(n) == n = 0

\* label files: every sequence has one label, labels are 1..num_labels, each used
LabelFiles(n, k) ==
    {f \in [1..n -> {<<l>> : l \in 1..k}] : {f[i][1] : i \in 1..n} = 1..k}

\* ------------------------------------------------------------- sequences
Min2(a, b) == IF a <= b THEN a ELSE b

\* python's x[:y] for y >= 0
Take(x, y) == SubSeq(x, 1, Min2(y, Len(x)))

\* faulty variant: truncating='pre' (the default of pad_sequences) keeps the last tokens
PadRowPre(s, maxlen, value) ==
    LET trunc == IF Len(s) > maxlen THEN SubSeq(s, Len(s) - maxlen + 1, Len(s)) ELSE s
    IN [i \in 1..maxlen |-> IF i <= Len(trunc) THEN trunc[i] ELSE value]

\* one row of keras pad_sequences(..., maxlen, padding='post', truncating='post', value)
PadRow(s, maxlen, value) ==
    LET trunc == Take(s, maxlen)
    IN [i \in 1..maxlen |-> IF i <= Len(trunc) THEN trunc[i] ELSE value]

pad_sequences(seqs, maxlen, value) ==
    [r \in 1..Len(seqs) |-> PadRow(seqs[r], maxlen, value)]

\* line 86: [x[:y] for (x, y) in zip(generated_sequences, final_sequence_lengths)]
trimmed_generated_sequences(seqs, lens) ==
    [r \in 1..Min2(Len(seqs), Len(lens)) |-> Take(seqs[r], lens[r])]

SeqsUpTo(S, n) == UNION {[1..k -> S] : k \in 0..n}

\* faulty variant: the marker is appended after the embeddings of the label
RECURSIVE PlotLoopMarkAfter(_, _, _, _)
PlotLoopMarkAfter(k, lme, ms, es) ==
    IF k > Len(lme) THEN <<Append(ms, Len(es)), es>>
    ELSE PlotLoopMarkAfter(k + 1, lme, Append(ms, Len(es \o lme[k][2])),
                           es \o lme[k][2])

\* the loops of generate_plot_coordinates, lines 13-19: <<markers, embeddings>>
RECURSIVE PlotLoop(_, _, _, _)
PlotLoop(k, lme, ms, es) ==
    IF k > Len(lme) THEN <<Append(ms, Len(es)), es>>
    ELSE PlotLoop(k + 1, lme, Append(ms, Len(es)), es \o lme[k][2])

\* ------------------------------------------------------------- main
PostIdle ==
    /\ generated_sequences = <<>>
    /\ final_sequence_lengths = <<>>
    /\ max_sequence_length = 0
    /\ eos_index = 0
    /\ padded_sequences = <<>>

TsneIdle ==
    /\ label_mapped_embeddings = <<>>
    /\ markers = <<>>
    /\ embeddings = <<>>
    /\ coordinates_dumped = FALSE

\* the state of main before its first statement, the inputs left open
MainFresh ==
    /\ data_read = FALSE
    /\ builds = 0
    /\ open_sessions = {}
    /\ opened_sessions = <<>>
    /\ samples_size = -1
    /\ avg_range_size = -1
    /\ ground_truth_writes = 0
    /\ outputs = {}
    /\ nothing_to_do_logged = FALSE
    /\ train_done = FALSE
    /\ infer_done = FALSE
    /\ random_style_choice = 0
    /\ average_label_embeddings = EmptyMap
    /\ n_generated = -1
    /\ error = "none"
    /\ exit_code = -1

InitMain ==
    /\ pc = "start"
    /\ train_model \in BOOLEAN
    /\ infer_sequences \in BOOLEAN
    /\ generate_novel_text \in BOOLEAN
    /\ data_size \in 1..MaxDataSize
    /\ batch_size \in 1..MaxBatchSize
    /\ num_labels \in 1..MaxLabels
    /\ label_sequences \in LabelFiles(data_size, num_labels)
    /\ all_style_embeddings \in [1..SamplesSize(data_size, batch_size) -> 0..MaxEmbedding]
    /\ MainFresh
    /\ PostIdle
    /\ TsneIdle

inputVars == <<train_model, infer_sequences, generate_novel_text, data_size,
               batch_size, num_labels, label_sequences, all_style_embeddings>>

\* lines 146-149: no flag selected
NothingToDoExit ==
    /\ pc = "start"
    /\ NothingToDo
    /\ nothing_to_do_logged' = TRUE
    /\ pc' = "exited"
    /\ exit_code' = 0
    /\ UNCHANGED auxVars
    /\ UNCHANGED <<inputVars, data_read, builds, open_sessions, opened_sessions,
                   samples_size, avg_range_size, ground_truth_writes, outputs,
                   train_done, infer_done, random_style_choice,
                   average_label_embeddings, n_generated, error>>

\* lines 151-160: get_data and get_word_embeddings
ReadData ==
    /\ pc = "start"
    /\ ~NothingToDo
    /\ data_read' = TRUE
    /\ pc' = "build"
    /\ exit_code' = exit_code
    /\ UNCHANGED auxVars
    /\ UNCHANGED <<inputVars, builds, open_sessions, opened_sessions,
                   samples_size, avg_range_size, ground_truth_writes, outputs,
                   nothing_to_do_logged, train_done, infer_done,
                   random_style_choice, average_label_embeddings, n_generated, error>>

\* lines 162-168
BuildModel ==
    /\ pc = "build"
    /\ builds' = builds + 1
    /\ pc' = "train_check"
    /\ exit_code' = exit_code
    /\ UNCHANGED auxVars
    /\ UNCHANGED <<inputVars, data_read, open_sessions, opened_sessions,
                   samples_size, avg_range_size, ground_truth_writes, outputs,
                   nothing_to_do_logged, train_done, infer_done,
                   random_style_choice, average_label_embeddings, n_generated, error>>

\* lines 171-173: sess = get_tensorflow_session()
TrainOpen ==
    /\ pc = "train_check"
    /\ train_model
    /\ open_sessions' = open_sessions \cup {"train"}
    /\ opened_sessions' = Append(opened_sessions, "train")
    /\ pc' = "training"
    /\ exit_code' = exit_code
    /\ UNCHANGED auxVars
    /\ UNCHANGED <<inputVars, data_read, builds, samples_size, avg_range_size,
                   ground_truth_writes, outputs, nothing_to_do_logged,
                   train_done, infer_done, random_style_choice,
                   average_label_embeddings, n_generated, error>>

\* faulty variant: training is skipped whatever the flag says
SkipTrainAlways ==
    /\ pc = "train_check"
    /\ pc' = "sample_check"
    /\ exit_code' = exit_code
    /\ UNCHANGED auxVars
    /\ UNCHANGED <<inputVars, data_read, builds, open_sessions, opened_sessions,
                   samples_size, avg_range_size, ground_truth_writes, outputs,
                   nothing_to_do_logged, train_done, infer_done,
                   random_style_choice, average_label_embeddings, n_generated, error>>

\* line 171, condition false
SkipTrain ==
    /\ pc = "train_check"
    /\ ~train_model
    /\ pc' = "sample_check"
    /\ exit_code' = exit_code
    /\ UNCHANGED auxVars
    /\ UNCHANGED <<inputVars, data_read, builds, open_sessions, opened_sessions,
                   samples_size, avg_range_size, ground_truth_writes, outputs,
                   nothing_to_do_logged, train_done, infer_done,
                   random_style_choice, average_label_embeddings, n_generated, error>>

\* faulty variant: the training session is not closed
TrainRunNoClose ==
    /\ pc = "training"
    /\ train_done' = TRUE
    /\ pc' = "sample_check"
    /\ exit_code' = exit_code
    /\ UNCHANGED auxVars
    /\ UNCHANGED <<inputVars, data_read, builds, open_sessions, opened_sessions,
                   samples_size, avg_range_size, ground_truth_writes, outputs,
                   nothing_to_do_logged, infer_done, random_style_choice,
                   average_label_embeddings, n_generated, error>>

\* lines 174-176: network.train(...); sess.close()
TrainRun ==
    /\ pc = "training"
    /\ \/ /\ train_done' = TRUE
          /\ open_sessions' = open_sessions \ {"train"}
          /\ pc' = "sample_check"
          /\ exit_code' = exit_code
          /\ error' = error
       \/ /\ error' = "TrainError"
          /\ pc' = "raised"
          /\ exit_code' = 1
          /\ UNCHANGED <<train_done, open_sessions>>
    /\ UNCHANGED auxVars
    /\ UNCHANGED <<inputVars, data_read, builds, opened_sessions, samples_size,
                   avg_range_size, ground_truth_writes, outputs,
                   nothing_to_do_logged, infer_done, random_style_choice,
                   average_label_embeddings, n_generated>>

\* line 178, condition false: only training was selected
ReturnAfterTrain ==
    /\ pc = "sample_check"
    /\ ~(infer_sequences \/ generate_novel_text)
    /\ pc' = "done"
    /\ exit_code' = 0
    /\ UNCHANGED auxVars
    /\ UNCHANGED <<inputVars, data_read, builds, open_sessions, opened_sessions,
                   samples_size, avg_range_size, ground_truth_writes, outputs,
                   nothing_to_do_logged, train_done, infer_done,
                   random_style_choice, average_label_embeddings, n_generated, error>>

\* lines 178-188: the sampling range and flush_ground_truth_sentences
FlushGroundTruth ==
    /\ pc = "sample_check"
    /\ infer_sequences \/ generate_novel_text
    /\ samples_size' = SamplesSize(data_size, batch_size)
    /\ ground_truth_writes' = ground_truth_writes + 1
    /\ pc' = "infer_check"
    /\ exit_code' = exit_code
    /\ UNCHANGED auxVars
    /\ UNCHANGED <<inputVars, data_read, builds, open_sessions, opened_sessions,
                   avg_range_size, outputs, nothing_to_do_logged, train_done,
                   infer_done, random_style_choice, average_label_embeddings,
                   n_generated, error>>

\* lines 191-193: sess = get_tensorflow_session()
InferOpen ==
    /\ pc = "infer_check"
    /\ infer_sequences
    /\ open_sessions' = open_sessions \cup {"infer"}
    /\ opened_sessions' = Append(opened_sessions, "infer")
    /\ pc' = "inferring"
    /\ exit_code' = exit_code
    /\ UNCHANGED auxVars
    /\ UNCHANGED <<inputVars, data_read, builds, samples_size, avg_range_size,
                   ground_truth_writes, outputs, nothing_to_do_logged,
                   train_done, infer_done, random_style_choice,
                   average_label_embeddings, n_generated, error>>

\* line 191, condition false
SkipInfer ==
    /\ pc = "infer_check"
    /\ ~infer_sequences
    /\ pc' = "generate_check"
    /\ exit_code' = exit_code
    /\ UNCHANGED auxVars
    /\ UNCHANGED <<inputVars, data_read, builds, open_sessions, opened_sessions,
                   samples_size, avg_range_size, ground_truth_writes, outputs,
                   nothing_to_do_logged, train_done, infer_done,
                   random_style_choice, average_label_embeddings, n_generated, error>>

\* lines 194-196: network.infer(sess, offset, samples_size); sess.close()
InferRun ==
    /\ pc = "inferring"
    /\ \/ /\ n_generated' = network_result_size(samples_size)
          /\ open_sessions' = open_sessions \ {"infer"}
          /\ pc' = "post_infer"
          /\ exit_code' = exit_code
          /\ error' = error
       \/ /\ error' = "InferError"
          /\ pc' = "raised"
          /\ exit_code' = 1
          /\ UNCHANGED <<n_generated, open_sessions>>
    /\ UNCHANGED auxVars
    /\ UNCHANGED <<inputVars, data_read, builds, opened_sessions, samples_size,
                   avg_range_size, ground_truth_writes, outputs,
                   nothing_to_do_logged, train_done, infer_done,
                   random_style_choice, average_label_embeddings>>

\* lines 197-201: execute_post_inference_operations(..., "reconstructed_sentences")
PostInfer ==
    /\ pc = "post_infer"
    /\ IF MinRaises(n_generated)
       THEN /\ error' = "ValueError"
            /\ pc' = "raised"
            /\ exit_code' = 1
            /\ UNCHANGED <<outputs, infer_done>>
       ELSE /\ outputs' = outputs \cup {"reconstructed_sentences"}
            /\ infer_done' = TRUE
            /\ pc' = "generate_check"
            /\ exit_code' = exit_code
            /\ error' = error
    /\ UNCHANGED auxVars
    /\ UNCHANGED <<inputVars, data_read, builds, open_sessions, opened_sessions,
                   samples_size, avg_range_size, ground_truth_writes,
                   nothing_to_do_logged, train_done, random_style_choice,
                   average_label_embeddings, n_generated>>

\* line 204, condition false: main returns
ReturnWithoutGenerate ==
    /\ pc = "generate_check"
    /\ ~generate_novel_text
    /\ pc' = "done"
    /\ exit_code' = 0
    /\ UNCHANGED auxVars
    /\ UNCHANGED <<inputVars, data_read, builds, open_sessions, opened_sessions,
                   samples_size, avg_range_size, ground_truth_writes, outputs,
                   nothing_to_do_logged, train_done, infer_done,
                   random_style_choice, average_label_embeddings, n_generated, error>>

\* lines 204-211: the style choice (num_labels >= 1, so randint's range is not
\* empty), the average embeddings, the lookup, the session
GenerateOpen ==
    /\ pc = "generate_check"
    /\ generate_novel_text
    /\ \E choice \in 1..num_labels :
            /\ random_style_choice' = choice
            /\ average_label_embeddings' = get_average_label_embeddings(
                   data_size, batch_size, label_sequences, all_style_embeddings)
            /\ avg_range_size' = AverageRangeSize(data_size, batch_size)
            /\ IF choice \in DOMAIN average_label_embeddings'
               THEN /\ open_sessions' = open_sessions \cup {"generate"}
                    /\ opened_sessions' = Append(opened_sessions, "generate")
                    /\ pc' = "generating"
                    /\ exit_code' = exit_code
                    /\ error' = error
               ELSE /\ error' = "KeyError"
                    /\ pc' = "raised"
                    /\ exit_code' = 1
                    /\ UNCHANGED <<open_sessions, opened_sessions>>
    /\ UNCHANGED auxVars
    /\ UNCHANGED <<inputVars, data_read, builds, samples_size,
                   ground_truth_writes, outputs, nothing_to_do_logged,
                   train_done, infer_done, n_generated>>

\* lines 212-218: network.generate_novel_sentences(...) and the post-operations;
\* the session is not closed
GenerateRun ==
    /\ pc = "generating"
    /\ \/ /\ n_generated' = network_result_size(samples_size)
          /\ IF MinRaises(n_generated')
             THEN /\ error' = "ValueError"
                  /\ pc' = "raised"
                  /\ exit_code' = 1
                  /\ outputs' = outputs
             ELSE /\ outputs' = outputs \cup {"novel_sentences"}
                  /\ pc' = "done"
                  /\ exit_code' = 0
                  /\ error' = error
       \/ /\ error' = "GenerateError"
          /\ pc' = "raised"
          /\ exit_code' = 1
          /\ UNCHANGED <<n_generated, outputs>>
    /\ UNCHANGED auxVars
    /\ UNCHANGED <<inputVars, data_read, builds, open_sessions, opened_sessions,
                   samples_size, avg_range_size, ground_truth_writes,
                   nothing_to_do_logged, train_done, infer_done,
                   random_style_choice, average_label_embeddings>>

Init == InitMain

Next ==
    \/ NothingToDoExit
    \/ ReadData
    \/ BuildModel
    \/ TrainOpen
    \/ SkipTrain
    \/ TrainRun
    \/ ReturnAfterTrain
    \/ FlushGroundTruth
    \/ InferOpen
    \/ SkipInfer
    \/ InferRun
    \/ PostInfer
    \/ ReturnWithoutGenerate
    \/ GenerateOpen
    \/ GenerateRun

Spec == Init /\ [][Next]_vars

\* ------------------------------------------------------------- truncated ranges
mainRest == <<train_model, infer_sequences, generate_novel_text, num_labels,
              label_sequences, all_style_embeddings, data_read, builds,
              open_sessions, opened_sessions, ground_truth_writes, outputs,
              nothing_to_do_logged, train_done, infer_done, random_style_choice,
              n_generated, error, exit_code>>

InitTrunc ==
    /\ pc = "ranges"
    /\ train_model = FALSE
    /\ infer_sequences = TRUE
    /\ generate_novel_text = TRUE
    /\ data_size \in 0..MaxTruncData
    /\ batch_size \in 1..MaxTruncBatch
    /\ num_labels = 0
    /\ label_sequences = <<>>
    /\ all_style_embeddings = <<>>
    /\ MainFresh
    /\ PostIdle
    /\ TsneIdle

\* lines 179-181 of main
SamplingRange ==
    /\ pc = "ranges"
    /\ samples_size = -1
    /\ samples_size' = SamplesSize(data_size, batch_size)
    /\ UNCHANGED <<pc, data_size, batch_size, avg_range_size,
                   average_label_embeddings, mainRest, auxVars>>

\* line 42 of get_average_label_embeddings
AveragingRange ==
    /\ pc = "ranges"
    /\ avg_range_size = -1
    /\ avg_range_size' = AverageRangeSize(data_size, batch_size)
    /\ UNCHANGED <<pc, data_size, batch_size, samples_size,
                   average_label_embeddings, mainRest, auxVars>>

NextTrunc == SamplingRange \/ AveragingRange

SpecTrunc == InitTrunc /\ [][NextTrunc]_vars

\* ------------------------------------------------------------- average embeddings
InitAvg ==
    /\ pc = "avg_call"
    /\ train_model = FALSE
    /\ infer_sequences = FALSE
    /\ generate_novel_text = TRUE
    /\ data_size \in 0..MaxDataSize
    /\ batch_size \in 1..MaxBatchSize
    /\ num_labels = MaxLabels
    /\ label_sequences \in [1..data_size -> {<<l>> : l \in 1..MaxLabels}]
    /\ all_style_embeddings \in [1..data_size -> 0..MaxEmbedding]
    /\ MainFresh
    /\ PostIdle
    /\ TsneIdle

\* get_average_label_embeddings(data_size, label_sequences), lines 35-56
AverageCall ==
    /\ pc = "avg_call"
    /\ average_label_embeddings' = get_average_label_embeddings(
           data_size, batch_size, label_sequences, all_style_embeddings)
    /\ avg_range_size' = AverageRangeSize(data_size, batch_size)
    /\ pc' = "avg_done"
    /\ exit_code' = exit_code
    /\ UNCHANGED <<data_size, batch_size, samples_size, mainRest, auxVars>>

NextAvg == AverageCall

SpecAvg == InitAvg /\ [][NextAvg]_vars

\* ------------------------------------------------------------- post-inference
Tokens == 1..VocabSize

InitPost ==
    /\ pc = "post_call"
    /\ train_model = FALSE
    /\ infer_sequences = TRUE
    /\ generate_novel_text = FALSE
    /\ data_size = 0
    /\ batch_size = 1
    /\ num_labels = 0
    /\ label_sequences = <<>>
    /\ all_style_embeddings = <<>>
    /\ MainFresh
    /\ TsneIdle
    /\ \E rows \in 0..MaxRows :
         /\ generated_sequences \in [1..rows -> SeqsUpTo(Tokens, MaxGenLen)]
         /\ final_sequence_lengths \in [1..rows -> 0..(MaxSeqLen + 1)]
    /\ max_sequence_length \in 1..MaxSeqLen
    /\ eos_index \in Tokens
    /\ padded_sequences = <<>>

\* execute_post_inference_operations, lines 81-105
ExecutePostInference ==
    /\ pc = "post_call"
    /\ IF MinRaises(Len(final_sequence_lengths))
       THEN /\ error' = "ValueError"
            /\ pc' = "raised"
            /\ exit_code' = exit_code
            /\ UNCHANGED <<padded_sequences, outputs>>
       ELSE /\ padded_sequences' = pad_sequences(
                   trimmed_generated_sequences(generated_sequences,
                                               final_sequence_lengths),
                   max_sequence_length, eos_index)
            /\ outputs' = outputs \cup {"reconstructed_sentences"}
            /\ pc' = "post_done"
            /\ exit_code' = exit_code
            /\ error' = error
    /\ UNCHANGED <<inputVars, data_read, builds, open_sessions, opened_sessions,
                   samples_size, avg_range_size, ground_truth_writes,
                   nothing_to_do_logged, train_done, infer_done,
                   random_style_choice, average_label_embeddings, n_generated>>
    /\ UNCHANGED <<generated_sequences, final_sequence_lengths,
                   max_sequence_length, eos_index, tsneVars>>

NextPost == ExecutePostInference

SpecPost == InitPost /\ [][NextPost]_vars

\* ------------------------------------------------------------- plot coordinates
\* a dictionary label -> list of embeddings is the list of its items in
\* iteration order; LabelOrders(k): the orders of k distinct labels
LabelOrders(k) ==
    {f \in [1..k -> 1..MaxPlotLabels] : \A i, j \in 1..k : i # j => f[i] # f[j]}

InitTsne ==
    /\ pc = "plot_call"
    /\ train_model = FALSE
    /\ infer_sequences = FALSE
    /\ generate_novel_text = FALSE
    /\ data_size = 0
    /\ batch_size = 1
    /\ num_labels = 0
    /\ label_sequences = <<>>
    /\ all_style_embeddings = <<>>
    /\ MainFresh
    /\ PostIdle
    /\ \E k \in 0..MaxPlotLabels :
         \E order \in LabelOrders(k) :
           \E lists \in [1..k -> SeqsUpTo(0..MaxEmbedding, MaxPerLabel)] :
             label_mapped_embeddings = [i \in 1..k |-> <<order[i], lists[i]>>]
    /\ markers = <<>>
    /\ embeddings = <<>>
    /\ coordinates_dumped = FALSE

\* generate_plot_coordinates, lines 12-34; embeddings.shape[1] (line 28) raises
\* IndexError when no embedding was collected
GeneratePlotCoordinates ==
    /\ pc = "plot_call"
    /\ markers' = PlotLoop(1, label_mapped_embeddings, <<>>, <<>>)[1]
    /\ embeddings' = PlotLoop(1, label_mapped_embeddings, <<>>, <<>>)[2]
    /\ IF Len(embeddings') = 0
       THEN /\ error' = "IndexError"
            /\ pc' = "raised"
            /\ exit_code' = exit_code
            /\ coordinates_dumped' = FALSE
       ELSE /\ coordinates_dumped' = TRUE
            /\ pc' = "plot_done"
            /\ exit_code' = exit_code
            /\ error' = error
    /\ UNCHANGED <<inputVars, data_read, builds, open_sessions, opened_sessions,
                   samples_size, avg_range_size, ground_truth_writes, outputs,
                   nothing_to_do_logged, train_done, infer_done,
                   random_style_choice, average_label_embeddings, n_generated>>
    /\ UNCHANGED <<label_mapped_embeddings, postVars>>

NextTsne == GeneratePlotCoordinates

SpecTsne == InitTsne /\ [][NextTsne]_vars

\* ------------------------------------------------------------- properties
\* the largest multiple of bs that does not exceed ds
LargestMultiple(ds, bs) ==
    CHOOSE m \in 0..ds : /\ m % bs = 0
                         /\ \A k \in 0..ds : k % bs = 0 => k <= m

\* C1: the number of examples used is the largest multiple of batch_size not
\* exceeding data_size (batch_size 4, data_size 10: 8 used, 2 dropped), and the
\* sampling range of main and the range iterated by
\* get_average_label_embeddings are the same range [0, that number).
C1_TruncatedRange ==
    /\ samples_size # -1 =>
          /\ samples_size = LargestMultiple(data_size, batch_size)
          /\ (batch_size = 4 /\ data_size = 10) =>
                (samples_size = 8 /\ data_size - samples_size = 2)
    /\ avg_range_size # -1 =>
          avg_range_size = LargestMultiple(data_size, batch_size)
    /\ (samples_size # -1 /\ avg_range_size # -1) =>
          {0 + i : i \in 0..(samples_size - 1)} = 0..(avg_range_size - 1)

C1_Witness ==
    /\ batch_size = 4
    /\ data_size = 10
    /\ samples_size = 8
    /\ avg_range_size = 8

\* indices (1-based) of the truncated dataset that carry label l
IndicesOf(l) ==
    {i \in 1..LargestMultiple(data_size, batch_size) : label_sequences[i][1] = l}

RECURSIVE SumOver(_, _)
SumOver(S, f) ==
    IF S = {} THEN 0
    ELSE LET i == CHOOSE j \in S : TRUE IN f[i] + SumOver(S \ {i}, f)

\* C2: the map returned by get_average_label_embeddings has exactly the labels
\* that occur among the first data_size - (data_size mod batch_size) label
\* sequences as keys (none that occurs only in the dropped tail or not at
\* all), and each value is the mean of the style embeddings at the indices
\* carrying that label.
C2_AverageMapKeysAndMeans ==
    pc = "avg_done" =>
        /\ DOMAIN average_label_embeddings =
              {l \in 1..MaxLabels : IndicesOf(l) # {}}
        /\ \A l \in DOMAIN average_label_embeddings :
              average_label_embeddings[l] =
                  <<SumOver(IndicesOf(l), all_style_embeddings),
                    Cardinality(IndicesOf(l))>>

C2_Witness ==
    /\ pc = "avg_done"
    /\ \E i \in 1..data_size :
          /\ i > LargestMultiple(data_size, batch_size)
          /\ label_sequences[i][1] \notin DOMAIN average_label_embeddings
    /\ \E l \in DOMAIN average_label_embeddings :
          /\ average_label_embeddings[l][2] >= 2
          /\ average_label_embeddings[l][1] = 1

\* C3: no session is still open when main ends, whether the step run inside
\* the session returned or raised, for every combination of the flags.
C3_SessionsClosedAtExit ==
    pc \in {"exited", "done", "raised"} => open_sessions = {}

\* C4: at most one session is open at any time, and a session is opened only
\* when every session opened before it has been closed.
C4_SessionsNeverOverlap ==
    /\ Cardinality(open_sessions) <= 1
    /\ \A i \in 1..Len(opened_sessions) :
          opened_sessions[i] \in open_sessions => i = Len(opened_sessions)

C4_Witness ==
    /\ opened_sessions = <<"train", "infer", "generate">>
    /\ open_sessions = {"generate"}

\* C5 as stated: every re-padded sequence has at most max_sequence_length
\* tokens, its first min(final length, max_sequence_length) tokens are the
\* tokens of the generated sequence at these positions, the rest is the
\* end-of-sequence id.
C5_PrefixOfFinalLength ==
    pc = "post_done" =>
        \A r \in 1..Len(padded_sequences) :
            LET out == padded_sequences[r]
                x == generated_sequences[r]
                k == Min2(final_sequence_lengths[r], max_sequence_length)
            IN /\ Len(out) <= max_sequence_length
               /\ \A i \in 1..k : i \in DOMAIN x /\ out[i] = x[i]
               /\ \A i \in (k + 1)..Len(out) : out[i] = eos_index

\* C5, amended: the prefix that is kept has min(final length,
\* max_sequence_length, length of the generated sequence) tokens.
C5_PrefixOfAvailableLength ==
    pc = "post_done" =>
        /\ Len(padded_sequences) = Len(generated_sequences)
        /\ \A r \in 1..Len(padded_sequences) :
            LET out == padded_sequences[r]
                x == generated_sequences[r]
                k == Min2(Min2(final_sequence_lengths[r], max_sequence_length), Len(x))
            IN /\ Len(out) <= max_sequence_length
               /\ \A i \in 1..k : out[i] = x[i]
               /\ \A i \in (k + 1)..Len(out) : out[i] = eos_index

C5_Witness ==
    /\ pc = "post_done"
    /\ \E r \in 1..Len(padded_sequences) :
          /\ final_sequence_lengths[r] > max_sequence_length
          /\ Len(generated_sequences[r]) > max_sequence_length
          /\ \E i \in 1..max_sequence_length : generated_sequences[r][i] # eos_index

\* C6: for every data_size and batch_size the infer and generate paths of
\* main drop the trailing examples and complete: main raises no error of its
\* own (an error is at most a failure of the network step itself).
C6_TruncationNeverRaises ==
    error \in {"none", "TrainError", "InferError", "GenerateError"}

\* C7: with no flag selected main exits with code 0 after the no-op message,
\* before it reads data, builds the model, opens a session or writes a file;
\* with a flag selected it does not take this exit.
C7_NothingToDoExit ==
    LET none == ~train_model /\ ~infer_sequences /\ ~generate_novel_text
    IN /\ pc = "exited" =>
            /\ none
            /\ exit_code = 0
            /\ nothing_to_do_logged
            /\ ~data_read
            /\ builds = 0
            /\ opened_sessions = <<>>
            /\ ground_truth_writes = 0
            /\ outputs = {}
       /\ none => pc \in {"start", "exited"}
       /\ ~none => (pc # "exited" /\ ~nothing_to_do_logged)

C7_Witness ==
    /\ pc = "exited"
    /\ exit_code = 0

PhasePositions ==
    {"train_check", "training", "sample_check", "infer_check", "inferring",
     "post_infer", "generate_check", "generating", "done"}

\* what C8 states apart from the origin of Inferring and Generating
PhaseOrder ==
    /\ builds <= 1
    /\ pc \in PhasePositions => builds = 1
    /\ ground_truth_writes <= 1
    /\ pc = "training" => (ground_truth_writes = 0 /\ opened_sessions = <<"train">>)
    /\ pc \in {"inferring", "post_infer", "generating"} => ground_truth_writes = 1
    /\ (pc = "generating" /\ infer_sequences) => infer_done
    /\ infer_done => "reconstructed_sentences" \in outputs

\* C8 as stated: the model is built once before any phase, Inferring and
\* Generating are entered only from Trained, training completes before
\* inference, inference before generation, the ground truth is written once
\* before either.
C8_PhasesFromTrained ==
    /\ PhaseOrder
    /\ pc \in {"inferring", "post_infer", "generating"} => train_done

\* C8, amended: Inferring and Generating are entered only after the model is
\* built and, when training is selected, only after training has completed.
C8_PhasesAfterSelectedTraining ==
    /\ PhaseOrder
    /\ pc \in {"inferring", "post_infer", "generating"} =>
          (train_model => train_done)

C8_Witness ==
    /\ pc = "generating"
    /\ train_done
    /\ infer_done
    /\ builds = 1
    /\ ground_truth_writes = 1

\* C9: the style chosen in [1, num_labels] always has an entry in the map
\* returned by get_average_label_embeddings.
C9_StyleChoiceHasEmbedding ==
    random_style_choice # 0 =>
        random_style_choice \in DOMAIN average_label_embeddings

\* C10: markers has one entry more than there are labels, starts at 0, is
\* non-decreasing, ends at the number of embeddings, and the embeddings of
\* the k-th label are exactly embeddings[markers[k] .. markers[k+1]).
C10_MarkersDelimitLabels ==
    pc \in {"plot_done", "raised"} =>
        LET n == Len(label_mapped_embeddings)
        IN /\ Len(markers) = n + 1
           /\ markers[1] = 0
           /\ markers[n + 1] = Len(embeddings)
           /\ \A k \in 1..n :
                 /\ markers[k] <= markers[k + 1]
                 /\ SubSeq(embeddings, markers[k] + 1, markers[k + 1]) =
                        label_mapped_embeddings[k][2]

C10_Witness ==
    /\ pc = "plot_done"
    /\ Len(label_mapped_embeddings) = 2
    /\ label_mapped_embeddings[1][2] = <<>>
    /\ markers[1] = markers[2]
    /\ markers[3] = 2
====
